---- MODULE Spec2Model ----
(***************************************************************************)
(* A model of src/lib/code-generator.js: CodeGenerator.generateCodes and   *)
(* the helpers it calls.                                                   *)
(*                                                                         *)
(* A string is a sequence of one-character strings.  A sparsity is a       *)
(* rational <<numerator, denominator>>.  The object existingCodes, used    *)
(* by the code as a set of own keys, is a set of strings (the Deno         *)
(* runtime has no Object.prototype.__proto__ accessor, so every string is  *)
(* an ordinary key).  Alphabets have at least two characters.              *)
(***************************************************************************)
EXTENDS Integers, Sequences, FiniteSets, TLC

VARIABLES
    pc,                  \* position of the current generateCodes call
    pattern,             \* argument pattern
    howMany,             \* howMany after the default of line 59
    options,             \* the merged options of lines 57-58
    howManySparse,       \* line 60
    existingCodes,       \* line 63, grown at line 100
    existingCount,       \* line 64
    existingCountSparse, \* line 65
    repetitions,         \* line 62
    calcResult,          \* value returned by calculateRepetitions at line 68
    generated,           \* line 80
    drawable,            \* the strings pattern.replace of line 84 can return in
                         \* this call, fixed when the loop starts
    produced,            \* TRUE once pattern.replace of line 84 has run
    loaderCalls,         \* calls of options.existingCodesLoader in this call
    error,               \* the exception that ended the call, or NoError
    lastIndex,           \* lastIndex of the four /g regexes of defaultOptions
    previous             \* the path the call before this one took: "variable" when
                         \* it reached calculateRepetitions, else "other"; "none"
                         \* before the first call

vars == <<pc, pattern, howMany, options, howManySparse, existingCodes,
          existingCount, existingCountSparse, repetitions, calcResult,
          generated, drawable, produced, loaderCalls, error, lastIndex, previous>>

-----------------------------------------------------------------------------
(* Bounds of the model *)

MaxHowMany == 3    \* largest howMany of the calls with the small alphabets
MaxExisting == 3   \* longest array their existingCodesLoader returns

-----------------------------------------------------------------------------
(* defaultOptions, lines 19-30 *)

DefaultNumericChars == <<"0", "1", "2", "3", "4", "5", "6", "7", "8", "9">>

DefaultAlphanumericChars ==
    <<"1", "2", "3", "4", "5", "6", "7", "8", "9", "A", "B", "C", "D", "E",
      "F", "G", "H", "J", "K", "L", "M", "N", "P", "Q", "R", "S", "T", "U",
      "V", "W", "X", "Y", "Z">>

RegexNames ==
    {"alphanumericRegex", "numericRegex", "alphanumericMoreRegex", "numericMoreRegex"}

Err(kind, requested, maximum, existing, sparsity) ==
    [kind |-> kind, requested |-> requested, maximum |-> maximum,
     existing |-> existing, sparsity |-> sparsity]

NoError == Err("none", 0, 0, 0, <<1, 1>>)

-----------------------------------------------------------------------------
(* Regular expressions of defaultOptions, lines 22-25 *)

CharAt(s, i) == IF i >= 1 /\ i <= Len(s) THEN s[i] ELSE ""

\* Length of the match of regex re that starts at (1-based) position i of s,
\* 0 when re does not match there.
MatchLen(re, s, i) ==
    CASE re = "alphanumericMoreRegex" ->
            IF CharAt(s, i) = "*" /\ CharAt(s, i + 1) = "+" THEN 2 ELSE 0
      [] re = "numericMoreRegex" ->
            IF CharAt(s, i) = "#" /\ CharAt(s, i + 1) = "+" THEN 2 ELSE 0
      [] re = "alphanumericRegex" ->
            IF CharAt(s, i) = "*" /\ CharAt(s, i + 1) # "+" THEN 1 ELSE 0
      [] re = "numericRegex" ->
            IF CharAt(s, i) = "#" /\ CharAt(s, i + 1) # "+" THEN 1 ELSE 0

\* RegExp.prototype.test on a /g regex: the search starts at lastIndex (a
\* 0-based offset); a match moves lastIndex to its end, a failure resets it.
RegexTest(re, s, li) ==
    LET starts == {i \in (li + 1)..Len(s) : MatchLen(re, s, i) > 0}
        first  == CHOOSE i \in starts : \A j \in starts : i <= j
    IN  IF starts = {}
        THEN [found |-> FALSE, lastIndex |-> 0]
        ELSE [found |-> TRUE, lastIndex |-> first + MatchLen(re, s, first) - 1]

\* String.prototype.match with a /g regex: all the matches, from offset 0.
\* The matches of these four regexes never overlap.
MatchCount(re, s) == Cardinality({i \in 1..Len(s) : MatchLen(re, s, i) > 0})

\* pattern.match(re) replaced by a call that leaves lastIndex alone
LastIndexAfterMatch_Kept(li, re) == li[re]

\* lastIndex of re after pattern.match(re): always reset.
LastIndexAfterMatch(li, re) == 0

\* hasMorePlaceholder, lines 253-255: a || b, b only evaluated when a fails.
hasMorePlaceholder(p, li) ==
    LET a == RegexTest("alphanumericMoreRegex", p, li["alphanumericMoreRegex"])
        b == RegexTest("numericMoreRegex", p, li["numericMoreRegex"])
    IN  IF a.found
        THEN [result |-> TRUE,
              lastIndex |-> [li EXCEPT !["alphanumericMoreRegex"] = a.lastIndex]]
        ELSE [result |-> b.found,
              lastIndex |-> [li EXCEPT !["alphanumericMoreRegex"] = a.lastIndex,
                                       !["numericMoreRegex"] = b.lastIndex]]

-----------------------------------------------------------------------------
(* Arithmetic *)

RECURSIVE Pow(_, _)
Pow(b, e) == IF e = 0 THEN 1 ELSE b * Pow(b, e - 1)

Max(a, b) == IF a >= b THEN a ELSE b

\* Math.ceil(n * sparsity)
CeilTimes(n, sp) == (n * sp[1] + sp[2] - 1) \div sp[2]

\* Math.ceil(a / b), b > 0
CeilDiv(a, b) == (a + b - 1) \div b

\* Math.round(n / sparsity)
RoundDiv(n, sp) == (2 * n * sp[2] + sp[1]) \div (2 * sp[1])

\* line 58
ClampSparsity(sp) == IF sp[1] < sp[2] THEN <<1, 1>> ELSE sp

-----------------------------------------------------------------------------
(* Pattern scanning: combineRegexps + String.prototype.replace *)

\* The alternative of a combined regex that matches at position i: the first
\* regex of res, in order, that matches there; "literal" when none does.
AlternativeAt(res, s, i) ==
    LET hits == {k \in 1..Len(res) : MatchLen(res[k], s, i) > 0}
    IN  IF hits = {} THEN "literal"
        ELSE res[CHOOSE k \in hits : \A j \in hits : k <= j]

\* The left-to-right scan pattern.replace(combined, callback) performs: the
\* sequence of matches (kind is the capture group that matched) and of the
\* characters between them (kind "literal"), from position i on.
RECURSIVE ScanFrom(_, _, _)
ScanFrom(res, s, i) ==
    IF i > Len(s) THEN <<>>
    ELSE LET kind == AlternativeAt(res, s, i)
             len  == IF kind = "literal" THEN 1 ELSE MatchLen(kind, s, i)
         IN  <<[kind |-> kind, ch |-> s[i]]>> \o ScanFrom(res, s, i + len)

\* combinedRegexp of lines 73-78
GenerateRegexps ==
    <<"alphanumericMoreRegex", "numericMoreRegex", "alphanumericRegex", "numericRegex">>

\* combined of line 185
RepetitionRegexps == <<"alphanumericMoreRegex", "numericMoreRegex">>

-----------------------------------------------------------------------------
(* randomChars, lines 114-120: every string the loop can build *)

\* the loop of line 116 running once too often (i <= howMany)
randomChars_OneMore(allowedChars, n) ==
    {[k \in 1..(n + 1) |-> allowedChars[f[k]]] :
        f \in [1..(n + 1) -> 1..Len(allowedChars)]}

randomChars(allowedChars, n) ==
    {[k \in 1..n |-> allowedChars[f[k]]] : f \in [1..n -> 1..Len(allowedChars)]}

-----------------------------------------------------------------------------
(* Capacity planning *)

\* line 218 counting one position too many
countPermutations_OneMore(p, matcher, chars) ==
    LET matches == MatchCount(matcher, p)
    IN  IF matches > 0 THEN Pow(Len(chars), matches + 1) ELSE 0

\* countPermutations, lines 216-219
countPermutations(p, matcher, chars) ==
    LET matches == MatchCount(matcher, p)
    IN  IF matches > 0 THEN Pow(Len(chars), matches) ELSE 0

\* countNonRepeatingPermutations, lines 207-214
countNonRepeatingPermutations(p, opts) ==
    LET numericPermutations ==
            countPermutations(p, "numericRegex", opts.numericChars)
        alphanumericPermutations ==
            countPermutations(p, "alphanumericRegex", opts.alphanumericChars)
    IN  IF numericPermutations > 0 /\ alphanumericPermutations > 0
        THEN numericPermutations * alphanumericPermutations
        ELSE numericPermutations + alphanumericPermutations

\* neededChars, lines 229-231: Math.ceil(Math.log(h) / Math.log(length)), the
\* least L with length^L >= h (h >= 1, length >= 2; the floating-point
\* quotient rounds to this L for the lengths and the h of this model).
RECURSIVE LeastPower(_, _, _)
LeastPower(h, base, L) ==
    IF Pow(base, L) >= h THEN L ELSE LeastPower(h, base, L + 1)

neededChars(h, allowedChars) == LeastPower(h, Len(allowedChars), 0)

\* line 159 comparing with <= : a request that exactly fills the space fails
checkRequestedCode_Strict(p, opts, existingSparse, hmSparse, hm, existing) ==
    LET possible  == countNonRepeatingPermutations(p, opts)
        available == possible - existingSparse
    IN  [throws   |-> available <= hmSparse,
         error    |-> Err("capacity", hm, RoundDiv(possible, opts.sparsity),
                           existing, opts.sparsity)]

\* checkRequestedCode, lines 156-167: whether it throws, and the message.
checkRequestedCode(p, opts, existingSparse, hmSparse, hm, existing) ==
    LET possible  == countNonRepeatingPermutations(p, opts)
        available == possible - existingSparse
    IN  [throws   |-> available < hmSparse,
         error    |-> Err("capacity", hm, RoundDiv(possible, opts.sparsity),
                           existing, opts.sparsity)]

\* calculateRepetitions, lines 176-198
calculateRepetitions(p, hmSparse, existing, opts) ==
    LET nonRepeatingPermutations == countNonRepeatingPermutations(p, opts)
        alphanumericMatches == MatchCount("alphanumericMoreRegex", p)
        numericMatches      == MatchCount("numericMoreRegex", p)
        hm           == Max(1, hmSparse - nonRepeatingPermutations + existing)
        totalMatches == alphanumericMatches + numericMatches
        distribute   == CeilDiv(hm, totalMatches)
        scan         == SelectSeq(ScanFrom(RepetitionRegexps, p, 1),
                                  LAMBDA t : t.kind # "literal")
    IN  [k \in 1..Len(scan) |->
            IF scan[k].kind = "alphanumericMoreRegex"
            THEN neededChars(distribute, opts.alphanumericChars)
            ELSE neededChars(distribute, opts.numericChars)]

-----------------------------------------------------------------------------
(* Code emission, lines 83-95 *)

\* The strings one pattern.replace(combinedRegexp, callback) can return; rep
\* is the copy of repetitions the callback shifts (shift of an empty array
\* gives undefined, and randomChars then returns the empty string).
RECURSIVE ReplaceFrom(_, _, _, _)
ReplaceFrom(scan, k, rep, opts) ==
    IF k > Len(scan) THEN {<<>>}
    ELSE LET t     == scan[k]
             more  == t.kind \in {"alphanumericMoreRegex", "numericMoreRegex"}
             n     == IF rep = <<>> THEN 0 ELSE Head(rep)
             heads == CASE t.kind = "alphanumericMoreRegex" ->
                              randomChars(opts.alphanumericChars, n)
                        [] t.kind = "numericMoreRegex" ->
                              randomChars(opts.numericChars, n)
                        [] t.kind = "alphanumericRegex" ->
                              randomChars(opts.alphanumericChars, 1)
                        [] t.kind = "numericRegex" ->
                              randomChars(opts.numericChars, 1)
                        [] OTHER -> {<<t.ch>>}
             rest  == ReplaceFrom(scan, k + 1,
                                  IF more /\ rep # <<>> THEN Tail(rep) ELSE rep,
                                  opts)
         IN  {h \o r : h \in heads, r \in rest}

PossibleCodes(p, rep, opts) == ReplaceFrom(ScanFrom(GenerateRegexps, p, 1), 1, rep, opts)

\* convertToObject, lines 137-143: the own keys of the object
convertToObject(ary) == {ary[k] : k \in 1..Len(ary)}

\* line 98 testing a key the object never holds
hasOwnProperty_Never(obj, code) == FALSE

\* existingCodes.hasOwnProperty(code), line 98
hasOwnProperty(obj, code) == code \in obj

\* line 82 comparing with <=
LoopContinues_OneMore(gen, hm) == Len(gen) <= hm

\* loop condition of line 82
LoopContinues(gen, hm) == Len(gen) < hm

-----------------------------------------------------------------------------
(* The calls made: arguments of generateCodes *)

\* The k-th code of a batch issued earlier for pattern p: every placeholder
\* holds the k-th character (cyclically) of its alphabet.
IssuedCode(p, opts, k) ==
    LET scan == ScanFrom(GenerateRegexps, p, 1)
        pick(chars) == chars[((k - 1) % Len(chars)) + 1]
    IN  [j \in 1..Len(scan) |->
            CASE scan[j].kind \in {"alphanumericMoreRegex", "alphanumericRegex"} ->
                    pick(opts.alphanumericChars)
              [] scan[j].kind \in {"numericMoreRegex", "numericRegex"} ->
                    pick(opts.numericChars)
              [] OTHER -> scan[j].ch]

Loader(throws, codes) == [throws |-> throws, codes |-> codes]

Options(alnum, num, sparsity, loader) ==
    [alphanumericChars |-> alnum, numericChars |-> num, sparsity |-> sparsity,
     existingCodesLoader |-> loader]

CallArgs(p, hm, opts) == [pattern |-> p, howMany |-> hm, options |-> opts]

SmallPatterns ==
    { <<>>, <<"A">>, <<"+">>, <<"#">>, <<"*">>, <<"#", "#">>, <<"*", "#">>,
      <<"A", "#">>, <<"#", "A">>, <<"#", "-", "*">>, <<"+", "#">>,
      <<"#", "+">>, <<"*", "+">>, <<"A", "#", "+">>, <<"#", "#", "+">>,
      <<"*", "#", "+">>, <<"#", "*", "+">>, <<"*", "+", "#">>,
      <<"#", "+", "+">>, <<"#", "+", "#", "+">>, <<"#", "+", "*", "+">>,
      <<"*", "+", "A", "#", "+">> }

SmallAlphabets ==
    { [alphanumericChars |-> <<"1", "A", "B">>, numericChars |-> <<"0", "1">>],
      [alphanumericChars |-> <<"1", "A", "B">>, numericChars |-> <<"0", "0">>] }

Sparsities == { <<1, 1>>, <<3, 2>>, <<2, 1>>, <<1, 2>> }

SmallLoaders(p, a) ==
    LET opts == Options(a.alphanumericChars, a.numericChars, <<1, 1>>, Loader(FALSE, <<>>))
    IN  { Loader(TRUE, <<>>), Loader(FALSE, << <<"Z">> >>) }
          \cup { Loader(FALSE, [k \in 1..n |-> IssuedCode(p, opts, k)]) : n \in 0..MaxExisting }

SmallCallsOf(p, a) ==
    { CallArgs(p, hm, Options(a.alphanumericChars, a.numericChars, sp, ld)) :
        hm \in 0..MaxHowMany, sp \in Sparsities, ld \in SmallLoaders(p, a) }

SmallCalls == UNION { SmallCallsOf(p, a) : p \in SmallPatterns, a \in SmallAlphabets }

\* Calls with the default alphabets of lines 20-21.
DefaultOptions(loader) ==
    Options(DefaultAlphanumericChars, DefaultNumericChars, <<1, 1>>, loader)

\* 95 of the 100 codes of pattern "##": "05", "06", ... "99"
Issued95 ==
    [k \in 1..95 |-> <<DefaultNumericChars[((k + 4) \div 10) + 1],
                       DefaultNumericChars[((k + 4) % 10) + 1]>>]

DefaultCalls ==
    { CallArgs(<<"#", "#">>, hm, DefaultOptions(Loader(FALSE, Issued95))) :
        hm \in {5, 6} }
      \cup { CallArgs(<<"F", "I", "X", "E", "D">>, hm, DefaultOptions(Loader(FALSE, <<>>))) :
               hm \in {1, 2} }
      \cup { CallArgs(<<"V", "-", "#", "+">>, 50, DefaultOptions(Loader(FALSE, <<>>))) }

Calls == SmallCalls \cup DefaultCalls

-----------------------------------------------------------------------------
(* generateCodes, lines 56-105 *)

Init ==
    /\ pc = "idle"
    /\ pattern = <<>>
    /\ howMany = 1
    /\ options = DefaultOptions(Loader(FALSE, <<>>))
    /\ howManySparse = 1
    /\ existingCodes = {}
    /\ existingCount = 0
    /\ existingCountSparse = 0
    /\ repetitions = <<>>
    /\ calcResult = <<>>
    /\ generated = <<>>
    /\ drawable = {}
    /\ produced = FALSE
    /\ loaderCalls = 0
    /\ error = NoError
    /\ lastIndex = [re \in RegexNames |-> 0]
    /\ previous = "none"

\* lines 57-65: merge the options, clamp the sparsity, default howMany, call
\* the loader once.  A loader that throws ends the call.
Call(args) ==
    /\ pc = "idle"
    /\ LET opts == [args.options EXCEPT !.sparsity = ClampSparsity(@)]
           hm   == IF args.howMany = 0 THEN 1 ELSE args.howMany
           obj  == convertToObject(opts.existingCodesLoader.codes)
       IN  /\ pattern' = args.pattern
           /\ options' = opts
           /\ howMany' = hm
           /\ howManySparse' = CeilTimes(hm, opts.sparsity)
           /\ loaderCalls' = 1
           /\ IF opts.existingCodesLoader.throws
              THEN /\ pc' = "failed"
                   /\ error' = Err("provider", 0, 0, 0, opts.sparsity)
                   /\ UNCHANGED <<existingCodes, existingCount, existingCountSparse>>
              ELSE /\ pc' = "loaded"
                   /\ error' = NoError
                   /\ existingCodes' = obj
                   /\ existingCount' = Cardinality(obj)
                   /\ existingCountSparse' = CeilTimes(Cardinality(obj), opts.sparsity)
    /\ UNCHANGED <<repetitions, calcResult, generated, drawable, produced, lastIndex,
                   previous>>

\* lines 67-68, right-hand side: the pattern has a '#+' or a '*+';
\* calculateRepetitions runs (its pattern.match calls and those of
\* countNonRepeatingPermutations reset the four lastIndex).
CalculateRepetitions ==
    /\ pc = "loaded"
    /\ hasMorePlaceholder(pattern, lastIndex).result
    /\ calcResult' = calculateRepetitions(pattern, howManySparse, existingCountSparse, options)
    /\ lastIndex' = [re \in RegexNames |->
                       LastIndexAfterMatch(hasMorePlaceholder(pattern, lastIndex).lastIndex, re)]
    /\ pc' = "assign"
    /\ UNCHANGED <<pattern, howMany, options, howManySparse, existingCodes, existingCount,
                   existingCountSparse, repetitions, generated, drawable, produced,
                   loaderCalls, error, previous>>

\* line 68, the assignment: repetitions is declared const at line 62, so the
\* assignment throws a TypeError and the value computed is dropped.
AssignRepetitions ==
    /\ pc = "assign"
    /\ pc' = "failed"
    /\ error' = Err("TypeError", 0, 0, 0, options.sparsity)
    /\ UNCHANGED <<pattern, howMany, options, howManySparse, existingCodes, existingCount,
                   existingCountSparse, repetitions, calcResult, generated, drawable,
                   produced, loaderCalls, lastIndex, previous>>

\* lines 69-80: no '#+' nor '*+'; checkRequestedCode throws or lets the loop start.
CheckRequestedCode ==
    /\ pc = "loaded"
    /\ ~hasMorePlaceholder(pattern, lastIndex).result
    /\ LET h == hasMorePlaceholder(pattern, lastIndex)
           c == checkRequestedCode(pattern, options, existingCountSparse, howManySparse,
                                   howMany, existingCount)
       IN  /\ lastIndex' = [re \in RegexNames |->
                              IF re \in {"numericRegex", "alphanumericRegex"}
                              THEN LastIndexAfterMatch(h.lastIndex, re)
                              ELSE h.lastIndex[re]]
           /\ IF c.throws
              THEN pc' = "failed" /\ error' = c.error /\ drawable' = {}
              ELSE /\ pc' = "loop"
                   /\ error' = NoError
                   /\ drawable' = PossibleCodes(pattern, repetitions, options)
    /\ UNCHANGED <<pattern, howMany, options, howManySparse, existingCodes, existingCount,
                   existingCountSparse, repetitions, calcResult, generated, produced,
                   loaderCalls, previous>>

\* lines 82-101, one iteration that produced code
Iterate(code) ==
    /\ pc = "loop"
    /\ LoopContinues(generated, howMany)
    /\ produced' = TRUE
    /\ IF ~hasOwnProperty(existingCodes, code)
       THEN /\ generated' = Append(generated, code)
            /\ existingCodes' = existingCodes \cup {code}
       ELSE UNCHANGED <<generated, existingCodes>>
    /\ UNCHANGED <<pc, pattern, howMany, options, howManySparse, existingCount,
                   existingCountSparse, repetitions, calcResult, drawable, loaderCalls,
                   error, lastIndex, previous>>

GenerateLoop == \E code \in drawable : Iterate(code)

\* an iteration whose code is new
FreshIteration ==
    \E code \in drawable \ existingCodes : Iterate(code)

\* lines 82 and 104: the loop condition fails, generated is returned
Return ==
    /\ pc = "loop"
    /\ ~LoopContinues(generated, howMany)
    /\ pc' = "done"
    /\ UNCHANGED <<pattern, howMany, options, howManySparse, existingCodes, existingCount,
                   existingCountSparse, repetitions, calcResult, generated, drawable,
                   produced, loaderCalls, error, lastIndex, previous>>

\* The call is over: its locals are gone, defaultOptions (and the lastIndex
\* of its regexes) stays.
EndCall ==
    /\ pc \in {"done", "failed"}
    /\ pc' = "idle"
    /\ pattern' = <<>>
    /\ howMany' = 1
    /\ options' = DefaultOptions(Loader(FALSE, <<>>))
    /\ howManySparse' = 1
    /\ existingCodes' = {}
    /\ existingCount' = 0
    /\ existingCountSparse' = 0
    /\ repetitions' = <<>>
    /\ calcResult' = <<>>
    /\ generated' = <<>>
    /\ drawable' = {}
    /\ produced' = FALSE
    /\ loaderCalls' = 0
    /\ error' = NoError
    /\ previous' = IF error.kind = "TypeError" THEN "variable" ELSE "other"
    /\ UNCHANGED lastIndex

Next ==
    \/ \E args \in Calls : Call(args)
    \/ CalculateRepetitions
    \/ AssignRepetitions
    \/ CheckRequestedCode
    \/ GenerateLoop
    \/ Return
    \/ EndCall

Spec == Init /\ [][Next]_vars

\* Math.random is uniform: a loop that can still draw a new code does not
\* draw old ones for ever, and a loop whose condition fails returns.
FairSpec == Spec /\ WF_vars(FreshIteration) /\ WF_vars(Return)

-----------------------------------------------------------------------------
(* Vocabulary of the properties, independent of the regex model *)

Range(seq) == {seq[k] : k \in 1..Len(seq)}

\* the pattern holds a '#+' or a '*+'
HasVariableToken(p) ==
    \E i \in 1..(Len(p) - 1) : p[i] \in {"#", "*"} /\ p[i + 1] = "+"

NumberOf(p, ch) == Cardinality({i \in 1..Len(p) : p[i] = ch})

DistinctChars(chars) ==
    \A i, j \in 1..Len(chars) : i # j => chars[i] # chars[j]

DistinctAlphabets ==
    DistinctChars(options.numericChars) /\ DistinctChars(options.alphanumericChars)

\* the strings the loader returned to this call
Issued == Range(options.existingCodesLoader.codes)

\* the check of lines 69-70 has run in this call
CheckedFixedPath ==
    /\ pc \in {"loop", "done", "failed"}
    /\ error.kind # "provider"
    /\ ~HasVariableToken(pattern)

-----------------------------------------------------------------------------
(* Properties *)

\* C1: in every state of the generation loop and in the returned sequence,
\* the accumulated codes are pairwise distinct and none of them is a string
\* the loader returned to this call.
C1_Uniqueness ==
    pc \in {"loop", "done"} =>
        /\ \A i, j \in 1..Len(generated) : i # j => generated[i] # generated[j]
        /\ \A i \in 1..Len(generated) : generated[i] \notin Issued

\* a batch of two returned although the loader had returned a producible code
C1_Witness ==
    /\ pc = "done"
    /\ Len(generated) >= 2
    /\ Issued \cap PossibleCodes(pattern, repetitions, options) # {}

C3_FeasibilityBoundary ==
    LET nNum == NumberOf(pattern, "#")
        nAl  == NumberOf(pattern, "*")
        pNum == Pow(Len(options.numericChars), nNum)
        pAl  == Pow(Len(options.alphanumericChars), nAl)
        possiblePermutations ==
            IF nNum > 0 /\ nAl > 0 THEN pNum * pAl
            ELSE IF nNum > 0 THEN pNum ELSE pAl
    IN  /\ (CheckedFixedPath /\ nNum + nAl > 0) =>
              ((error.kind = "capacity") <=>
                 (possiblePermutations - CeilTimes(Cardinality(Issued), options.sparsity)
                    < CeilTimes(howMany, options.sparsity)))
        /\ (CheckedFixedPath /\ pattern = <<"#", "#">> /\ Cardinality(Issued) = 95
              /\ options.numericChars = DefaultNumericChars /\ options.sparsity = <<1, 1>>) =>
              /\ howMany = 5 => error.kind = "none"
              /\ howMany = 6 => error.kind = "capacity" /\ error.maximum = 100

\* "##" with 95 issued codes: the sixth code is refused
C3_Witness ==
    /\ pc = "failed"
    /\ pattern = <<"#", "#">>
    /\ Cardinality(Issued) = 95
    /\ howMany = 6
    /\ error.kind = "capacity"
    /\ error.maximum = 100

\* C4: the lengths calculateRepetitions returns give the pattern at least
\* howMany codes that were not issued before (alphabets of distinct
\* characters).
C4_VariableCapacity ==
    (pc = "assign" /\ DistinctAlphabets) =>
        Cardinality(PossibleCodes(pattern, calcResult, options) \ Issued) >= howMany

\* C5: a call whose pattern holds a '#+' or a '*+', with a loader that does
\* not throw, never ends in an error.
C5_NoErrorOnVariablePath ==
    (HasVariableToken(pattern) /\ ~options.existingCodesLoader.throws) => pc # "failed"

\* C6: for a pattern without any placeholder and no issued code, howMany = 1
\* returns the pattern itself and howMany = 2 fails with the capacity error.
C6_DegeneratePattern ==
    (/\ pc \in {"done", "failed"}
     /\ NumberOf(pattern, "#") + NumberOf(pattern, "*") = 0
     /\ Issued = {}
     /\ ~options.existingCodesLoader.throws) =>
        /\ howMany = 1 => pc = "done" /\ generated = <<pattern>>
        /\ howMany = 2 => pc = "failed" /\ error.kind = "capacity"

\* the '+' of a '#+' or '*+'
IsVariablePlus(p, i) == i > 1 /\ p[i] = "+" /\ p[i - 1] \in {"#", "*"}

\* code has the shape of pattern p: same length, literals in place, '#' and
\* '#+' positions numeric, '*' and '*+' positions alphanumeric
HasShape(code, p, opts) ==
    /\ Len(code) = Len(p)
    /\ \A i \in 1..Len(p) :
          CASE p[i] = "#" -> code[i] \in Range(opts.numericChars)
            [] p[i] = "*" -> code[i] \in Range(opts.alphanumericChars)
            [] IsVariablePlus(p, i) ->
                  IF p[i - 1] = "#" THEN code[i] \in Range(opts.numericChars)
                  ELSE code[i] \in Range(opts.alphanumericChars)
            [] OTHER -> code[i] = p[i]

\* C7: every accumulated and every returned code has the shape of the pattern.
C7_ShapeConformance ==
    pc \in {"loop", "done"} =>
        \A i \in 1..Len(generated) : HasShape(generated[i], pattern, options)

\* two codes returned for "#-*": a literal between the two kinds of placeholder
C7_Witness ==
    /\ pc = "done"
    /\ pattern = <<"#", "-", "*">>
    /\ Len(generated) >= 2

\* C8: calculateRepetitions gives every '#+' and '*+' at least one character.
C8_AtLeastOneChar ==
    pc = "assign" => \A k \in 1..Len(calcResult) : calcResult[k] >= 1

\* the codes of the pattern neither issued before nor accumulated
Unissued == PossibleCodes(pattern, <<>>, options) \ (Issued \cup Range(generated))

\* C9, every state of the loop: with alphabets of distinct characters at
\* least howMany - (codes accumulated) codes are still unissued.
C9_EnoughUnissued ==
    (pc = "loop" /\ DistinctAlphabets) =>
        Cardinality(Unissued) >= howMany - Len(generated)

C10_NoStateAcrossCalls ==
    /\ pc = "loaded" =>
          (hasMorePlaceholder(pattern, lastIndex).result <=> HasVariableToken(pattern))
    /\ (pc = "assign" \/ error.kind = "TypeError") => HasVariableToken(pattern)
    /\ (pc \in {"loop", "done"} \/ error.kind = "capacity") => ~HasVariableToken(pattern)

\* a call with a variable token right after another one that found one
C10_Witness ==
    /\ pc = "loaded"
    /\ previous = "variable"
    /\ HasVariableToken(pattern)
    /\ hasMorePlaceholder(pattern, lastIndex).result

====
